---- MODULE Spec2Model ----
(***************************************************************************)
(* Model of megadetector/postprocessing/classification_postprocessing.py:  *)
(* the classification smoother _smooth_classifications_for_list_of_        *)
(* detections, the tally _count_detections_by_category it is built on      *)
(* (specification Spec), and the image-level and sequence-level drivers    *)
(* with _prepare_results_for_smoothing (specification DriverSpec).         *)
(*                                                                         *)
(* Confidences are the source's floats scaled by 100 (0.15 is 15).  A      *)
(* detection is a record [conf, has, classifications]: `has` says whether  *)
(* the 'classifications' key is present, and classifications is the list   *)
(* of [cat, conf] entries (c[0] and c[1] in the source).  A tally, the     *)
(* source's ordered dict category id -> count, is a sequence of records    *)
(* [cat, n] in the dict's iteration order.                                 *)
(***************************************************************************)
EXTENDS Integers, Sequences, FiniteSets, TLC

\* ------------------------------------------------------------------ bounds

\* Longest unit (detection list) of the general input family, and the most
\* detections in it that fail a threshold or have no classification.
MaxDets == 4
MaxHidden == 1

\* Longest unit of the scenario input family (all detections counted), long
\* enough for a dominant count above 4 next to another category and for
\* two categories tied at 3.
MaxScenarioDets == 6

\* Longest unit of the taxonomy input family (all detections counted), long
\* enough for a parent of 2 with children of 2 and 3.
MaxTaxonomyDets == 7

\* Number of times the smoother is run on a unit, each run on the list the
\* previous one left.
MaxRuns == 2

\* Most detections of the single image of the normaliser input family, most
\* images of the sequence input family, and the number of images of the
\* one-stray-image family (seven of one category and one of another).
MaxRawDets == 3
MaxImages == 3
MaxSequenceImages == 8

\* ------------------------------------------------------- program constants

\* ClassificationSmoothingOptions.__init__ defaults
DefaultMinDetectionsToOverwriteSecondary == 4
DefaultMaxDetectionsNondominantClass == 1
DefaultMinDetectionsToOverwriteOther == 2
DefaultClassificationConfidenceThreshold == 50
DefaultDetectionConfidenceThreshold == 15
DefaultOtherCategoryNames ==
    {"other", "unknown", "no cv result", "animal", "blank", "mammal"}

\* ------------------------------------------------------------ input values

\* Category ids (keys of classification_categories).
Cats == {"1", "2", "3"}

\* The options object; the field names are the attributes of
\* ClassificationSmoothingOptions.
ClassificationSmoothingOptions ==
    [min_detections_to_overwrite_secondary |-> DefaultMinDetectionsToOverwriteSecondary,
     max_detections_nondominant_class |-> DefaultMaxDetectionsNondominantClass,
     min_detections_to_overwrite_other |-> DefaultMinDetectionsToOverwriteOther,
     classification_confidence_threshold |-> DefaultClassificationConfidenceThreshold,
     detection_confidence_threshold |-> DefaultDetectionConfidenceThreshold,
     propagate_classifications_through_taxonomy |-> TRUE,
     other_category_names |-> DefaultOtherCategoryNames,
     add_pre_smoothing_description |-> TRUE,
     modify_in_place |-> FALSE]

\* Option objects of the general family: small tunables, so that every
\* pass fires on units of up to MaxDets detections.
SmallOptions ==
    { [ClassificationSmoothingOptions EXCEPT
         !.min_detections_to_overwrite_secondary = 1,
         !.max_detections_nondominant_class = 1,
         !.min_detections_to_overwrite_other = o] : o \in {1, 2} }

\* Option objects of the scenario family: the defaults; an object
\* with the tunables in the defaults' order but small enough for every pass
\* to fire on short units; two objects whose tunables are out of that
\* order (a non-dominant class may be larger than the secondary minimum; the
\* "other" minimum is more than one above the secondary minimum); and the
\* defaults with propagate_classifications_through_taxonomy switched off.
ScenarioOptions ==
    { ClassificationSmoothingOptions,
      [ClassificationSmoothingOptions EXCEPT
         !.min_detections_to_overwrite_secondary = 1,
         !.max_detections_nondominant_class = 1,
         !.min_detections_to_overwrite_other = 2],
      [ClassificationSmoothingOptions EXCEPT
         !.min_detections_to_overwrite_secondary = 1,
         !.max_detections_nondominant_class = 2,
         !.min_detections_to_overwrite_other = 2],
      [ClassificationSmoothingOptions EXCEPT
         !.min_detections_to_overwrite_secondary = 1,
         !.max_detections_nondominant_class = 1,
         !.min_detections_to_overwrite_other = 3],
      [ClassificationSmoothingOptions EXCEPT
         !.propagate_classifications_through_taxonomy = FALSE] }

\* A detection with one classification entry.
Det(conf, cat, cconf) ==
    [conf |-> conf, has |-> TRUE,
     classifications |-> << [cat |-> cat, conf |-> cconf] >>]

\* A detection without the 'classifications' key.
DetNoCls(conf) == [conf |-> conf, has |-> FALSE, classifications |-> << >>]

\* Detections that pass both thresholds, exactly at the thresholds.
QualifyingKinds ==
    { Det(DefaultDetectionConfidenceThreshold, c,
          DefaultClassificationConfidenceThreshold) : c \in Cats }

\* Detections that fail a threshold by the smallest step, or have no
\* classification.
HiddenKinds ==
    { Det(DefaultDetectionConfidenceThreshold - 1, "1",
          DefaultClassificationConfidenceThreshold),
      Det(DefaultDetectionConfidenceThreshold, "2",
          DefaultClassificationConfidenceThreshold - 1),
      DetNoCls(DefaultDetectionConfidenceThreshold) }

\* Detections of the scenario family: both confidences above their
\* thresholds.
ScenarioKinds ==
    { Det(DefaultDetectionConfidenceThreshold + 1, c,
          DefaultClassificationConfidenceThreshold + 1) : c \in Cats }

\* All sequences over S of length 0..n.
SeqsUpTo(S, n) == UNION { [1..k -> S] : k \in 0..n }

\* Units of the general family: every order of up to MaxDets detections of
\* which at most MaxHidden are not counted.
GeneralUnits ==
    { s \in SeqsUpTo(QualifyingKinds \cup HiddenKinds, MaxDets) :
        Cardinality({ i \in DOMAIN s : s[i] \in HiddenKinds }) <= MaxHidden }

\* The list of k detections d.
Repeat(d, k) == [i \in 1..k |-> d]

\* Units of the scenario family ("cow x 5, deer x 1"): up to three runs of
\* counted detections of distinct categories, in every order of the
\* categories, with up to MaxScenarioDets detections in all.
ScenarioUnits ==
    { Repeat(a, i) \o Repeat(b, j) \o Repeat(c, k) :
        <<a, b, c>> \in { t \in ScenarioKinds \X ScenarioKinds \X ScenarioKinds :
                            t[1] # t[2] /\ t[1] # t[3] /\ t[2] # t[3] },
        <<i, j, k>> \in { n \in (0..MaxScenarioDets) \X (0..MaxScenarioDets)
                                  \X (0..MaxScenarioDets) :
                            n[1] + n[2] + n[3] <= MaxScenarioDets } }

\* Units of the taxonomy family: as the scenario family's, with more than
\* MaxScenarioDets and up to MaxTaxonomyDets detections in all.
TaxonomyUnits ==
    { Repeat(a, i) \o Repeat(b, j) \o Repeat(c, k) :
        <<a, b, c>> \in { t \in ScenarioKinds \X ScenarioKinds \X ScenarioKinds :
                            t[1] # t[2] /\ t[1] # t[3] /\ t[2] # t[3] },
        <<i, j, k>> \in { n \in (0..MaxTaxonomyDets) \X (0..MaxTaxonomyDets)
                                  \X (0..MaxTaxonomyDets) :
                            /\ n[1] + n[2] + n[3] > MaxScenarioDets
                            /\ n[1] + n[2] + n[3] <= MaxTaxonomyDets } }

\* Cleaned taxonomy strings are sequences of characters; NoDescriptions is
\* classification_descriptions_clean = None, an empty table is {}.
NoDescriptions == [present |-> FALSE, table |-> << >>]
EmptyDescriptions == [present |-> TRUE, table |-> << >>]
\* "1" has the empty cleaned description ("animal"), "3" is a child of "2".
FoxDescriptions ==
    [present |-> TRUE,
     table |-> [c \in Cats |->
                  CASE c = "1" -> << >>
                    [] c = "2" -> << "f" >>
                    [] OTHER  -> << "f", ";", "r" >>]]
\* "2" is a child of "1", "3" is related to neither.
UnrelatedDescriptions ==
    [present |-> TRUE,
     table |-> [c \in Cats |->
                  CASE c = "1" -> << "a" >>
                    [] c = "2" -> << "a", ";", "b" >>
                    [] OTHER  -> << "c" >>]]

\* other_category_ids: no, one or two of the categories are "other" names.
OtherIdSets == { {}, {"1"}, {"1", "2"} }

\* ------------------------------------------------------ results structures

\* classification_categories of a results dict: category id -> name.
ClassificationCategories ==
    [c \in Cats |-> CASE c = "1" -> "animal"
                      [] c = "2" -> "fox"
                      [] OTHER  -> "red fox"]

\* classification_category_descriptions of a results dict.  A description is
\* a string of seven ';'-separated tokens; it is held as the two things the
\* program takes from it: clean, what clean_taxonomy_string(...).strip(';')
\* .lower() leaves of it (line 236), and name, its last token (line 147).
FoxCategoryDescriptions ==
    [c \in Cats |-> [clean |-> FoxDescriptions.table[c],
                     name |-> ClassificationCategories[c]]]

\* A detection as a results file holds it, with any number of
\* classification entries: two entries in descending order of confidence,
\* two entries in ascending order, and an empty list.
DetTwoSorted ==
    [conf |-> DefaultDetectionConfidenceThreshold + 1, has |-> TRUE,
     classifications |->
       << [cat |-> "2", conf |-> DefaultClassificationConfidenceThreshold + 2],
          [cat |-> "3", conf |-> DefaultClassificationConfidenceThreshold + 1] >>]
DetTwoUnsorted ==
    [conf |-> DefaultDetectionConfidenceThreshold + 1, has |-> TRUE,
     classifications |->
       << [cat |-> "2", conf |-> DefaultClassificationConfidenceThreshold + 1],
          [cat |-> "3", conf |-> DefaultClassificationConfidenceThreshold + 2] >>]
DetEmptyList ==
    [conf |-> DefaultDetectionConfidenceThreshold + 1, has |-> TRUE,
     classifications |-> << >>]

RawKinds ==
    ScenarioKinds \cup { DetTwoSorted, DetTwoUnsorted, DetEmptyList,
                         DetNoCls(DefaultDetectionConfidenceThreshold + 1) }

\* An image of a results dict.  has_detections is FALSE when the
\* 'detections' key is missing or None; has_description says whether
\* 'pre_smoothing_description' has been set.
Image(file, has_detections, dets) ==
    [file |-> file, has_detections |-> has_detections, detections |-> dets,
     has_description |-> FALSE, pre_smoothing_description |-> << >>]

\* A results dict; has_descriptions says whether the key
\* 'classification_category_descriptions' is present.
Results(images, has_descriptions) ==
    [classification_categories |-> ClassificationCategories,
     has_descriptions |-> has_descriptions,
     classification_category_descriptions |-> FoxCategoryDescriptions,
     images |-> images]

\* The value of a variable that holds no dict.
NoDict == Results(<< >>, FALSE)

\* Option objects of the drivers' input families: the defaults, the
\* defaults with modify_in_place set, the defaults without the pre-smoothing
\* description, and the defaults with small tunables.
InPlaceOptions == [ClassificationSmoothingOptions EXCEPT !.modify_in_place = TRUE]
NoDescriptionOptions ==
    [ClassificationSmoothingOptions EXCEPT !.add_pre_smoothing_description = FALSE]
TightOptions ==
    [ClassificationSmoothingOptions EXCEPT
       !.min_detections_to_overwrite_secondary = 1,
       !.max_detections_nondominant_class = 1,
       !.min_detections_to_overwrite_other = 2]

\* cct_sequence_information for n images: entries [file_name, seq_id], in
\* the order of the results or in reverse, the first image in sequence "s1".
SequenceInformation(n) ==
    { [k \in 1..n |-> [file_name |-> IF forward THEN k ELSE n + 1 - k,
                       seq_id |-> seq[IF forward THEN k ELSE n + 1 - k]]] :
        forward \in BOOLEAN,
        seq \in { f \in [1..n -> {"s1", "s2"}] : n > 0 => f[1] = "s1" } }

\* All images in one sequence, in the order of the results.
OneSequence(n) == [k \in 1..n |-> [file_name |-> k, seq_id |-> "s1"]]

\* The detection of ScenarioKinds with category c.
CountedDet(c) ==
    Det(DefaultDetectionConfidenceThreshold + 1, c,
        DefaultClassificationConfidenceThreshold + 1)

\* Image contents of the sequence input family: no 'detections' key, an
\* empty list, one counted detection of each category, and two of category
\* "2" with one of the "other" category "1".
ImageKinds ==
    { [has_detections |-> FALSE, detections |-> << >>],
      [has_detections |-> TRUE, detections |-> << >>] }
    \cup { [has_detections |-> TRUE, detections |-> << k >>] : k \in ScenarioKinds }
    \cup { [has_detections |-> TRUE,
            detections |-> << CountedDet("2"), CountedDet("2"), CountedDet("1") >>] }

\* The images of a results dict with the given contents, named 1..n.
ImagesOf(contents) ==
    [k \in DOMAIN contents |->
       Image(k, contents[k].has_detections, contents[k].detections)]

\* Image lists of the one-stray-image family: MaxSequenceImages images of
\* one detection each, all of category "2" but one of category "3".
StrayImageLists ==
    { ImagesOf([k \in 1..MaxSequenceImages |->
                 [has_detections |-> TRUE,
                  detections |-> << CountedDet(IF k = p THEN "3" ELSE "2") >>]]) :
        p \in 1..MaxSequenceImages }

\* ------------------------------------------------ _count_detections_by_category

\* IsCounted with the detection threshold exclusive (conf > threshold).
IsCounted_StrictDetectionThreshold(det, options) ==
    /\ det.has
    /\ det.conf > options.detection_confidence_threshold
    /\ det.classifications[1].conf >= options.classification_confidence_threshold

\* The condition under which a detection is counted: the key is present, the
\* detection confidence is at least the detection threshold and the
\* classification confidence at least the classification threshold.
IsCounted(det, options) ==
    /\ det.has
    /\ det.conf >= options.detection_confidence_threshold
    /\ det.classifications[1].conf >= options.classification_confidence_threshold

\* c[0] of a detection's only classification.
CategoryOf(det) == det.classifications[1].cat

\* category_to_count[c] += 1 on the defaultdict: a new key is appended
\* (dicts keep insertion order), an existing one keeps its place.
Increment(category_to_count, c) ==
    IF \E j \in DOMAIN category_to_count : category_to_count[j].cat = c
    THEN LET j == CHOOSE k \in DOMAIN category_to_count :
                     category_to_count[k].cat = c
         IN [category_to_count EXCEPT ![j].n = @ + 1]
    ELSE Append(category_to_count, [cat |-> c, n |-> 1])

RECURSIVE CountLoop(_, _, _, _)
\* The counting loop from the i-th detection on; category_to_count is the
\* defaultdict so far.
CountLoop(detections, options, i, category_to_count) ==
    IF i > Len(detections) THEN category_to_count
    ELSE CountLoop(detections, options, i + 1,
           IF IsCounted(detections[i], options)
           THEN Increment(category_to_count, CategoryOf(detections[i]))
           ELSE category_to_count)

RECURSIVE SortedByCount(_, _)
\* sorted(items, key=count, reverse=True): Python's sort is stable, and with
\* reverse=True it keeps the original order of items with equal keys.
\* k runs from the largest possible count down to 1.
SortedByCount(items, k) ==
    IF k = 0 THEN << >>
    ELSE SelectSeq(items, LAMBDA e : e.n = k) \o SortedByCount(items, k - 1)

\* _count_detections_by_category: the tally as a sequence of [cat, n].
CountDetectionsByCategory(detections, options) ==
    SortedByCount(CountLoop(detections, options, 1, << >>), Len(detections))

\* category_to_count[c] for a key c of the tally (0 when c is no key, where
\* the source would raise KeyError; the passes only look up keys).
TallyCount(category_to_count, c) ==
    IF \E j \in DOMAIN category_to_count : category_to_count[j].cat = c
    THEN category_to_count[CHOOSE j \in DOMAIN category_to_count :
                             category_to_count[j].cat = c].n
    ELSE 0

\* --------------------------- _smooth_classifications_for_list_of_detections

\* SwapTiedOther without the special case.
SwapTiedOther_NoSwap(category_to_count, other_category_ids) == category_to_count

\* The keys of the initial tally after the "quirky special case": when the
\* most common category is an "other" category tied with a second category
\* that is not, the two are swapped.
SwapTiedOther(category_to_count, other_category_ids) ==
    IF /\ Len(category_to_count) > 1
       /\ category_to_count[1].cat \in other_category_ids
       /\ category_to_count[2].cat \notin other_category_ids
       /\ category_to_count[1].n = category_to_count[2].n
    THEN [category_to_count EXCEPT ![1] = category_to_count[2],
                                   ![2] = category_to_count[1]]
    ELSE category_to_count

\* ShouldOverwriteOther with the minimum exclusive (max_count > minimum).
ShouldOverwriteOther_Strict(max_count, most_common_category, options, other_category_ids) ==
    /\ max_count > options.min_detections_to_overwrite_other
    /\ most_common_category \notin other_category_ids

\* ShouldOverwriteOther without the minimum.
ShouldOverwriteOther_NoMinimum(max_count, most_common_category, options, other_category_ids) ==
    most_common_category \notin other_category_ids

\* The guard of the "other" override.
ShouldOverwriteOther(max_count, most_common_category, options, other_category_ids) ==
    /\ max_count >= options.min_detections_to_overwrite_other
    /\ most_common_category \notin other_category_ids

\* IsOverwrittenOther without the classification confidence test.
IsOverwrittenOther_IgnoreClassificationThreshold(det, options, other_category_ids) ==
    /\ det.has
    /\ det.conf >= options.detection_confidence_threshold
    /\ CategoryOf(det) \in other_category_ids

\* The detections rewritten by the loop of the "other" override.
IsOverwrittenOther(det, options, other_category_ids) ==
    /\ IsCounted(det, options)
    /\ CategoryOf(det) \in other_category_ids

\* Relabel that writes a whole new entry, with the threshold as confidence.
Relabel_NewEntry(det, cat) ==
    [det EXCEPT !.classifications =
       << [cat |-> cat, conf |-> DefaultClassificationConfidenceThreshold] >>]

\* det with c[0] = cat
Relabel(det, cat) == [det EXCEPT !.classifications[1].cat = cat]

\* Pass 1 on a unit whose initial tally category_to_count has at least two
\* categories: the detection list after it and
\* n_other_classifications_changed_this_image.
OverwriteOtherGiven(detections, options, other_category_ids, category_to_count) ==
    LET keys == SwapTiedOther(category_to_count, other_category_ids)
        max_count == keys[1].n
        most_common_category == keys[1].cat
        fires == ShouldOverwriteOther(max_count, most_common_category,
                                      options, other_category_ids)
    IN [detections |->
          [i \in DOMAIN detections |->
             IF fires /\ IsOverwrittenOther(detections[i], options, other_category_ids)
             THEN Relabel(detections[i], most_common_category)
             ELSE detections[i]],
        n |-> IF fires
              THEN Cardinality({ i \in DOMAIN detections :
                     IsOverwrittenOther(detections[i], options, other_category_ids) })
              ELSE 0]

\* Pass 1, with the tally computed once as in the source (line 285).
OverwriteOther(detections, options, other_category_ids) ==
    CHOOSE r \in { OverwriteOtherGiven(detections, options, other_category_ids, t) :
                     t \in { CountDetectionsByCategory(detections, options) } } : TRUE

\* ShouldFlip without the limit on the size of the non-dominant class.
ShouldFlip_NoNondominantLimit(c, most_common_category, max_count, category_to_count, options) ==
    /\ c # most_common_category
    /\ max_count > TallyCount(category_to_count, c)
    /\ max_count > options.min_detections_to_overwrite_secondary

\* ShouldFlip with the limit exclusive (count < max_detections_nondominant_class).
ShouldFlip_StrictNondominantLimit(c, most_common_category, max_count, category_to_count, options) ==
    /\ c # most_common_category
    /\ max_count > TallyCount(category_to_count, c)
    /\ max_count > options.min_detections_to_overwrite_secondary
    /\ TallyCount(category_to_count, c) < options.max_detections_nondominant_class

\* The condition under which the dominant flip rewrites a counted detection
\* of category c.
ShouldFlip(c, most_common_category, max_count, category_to_count, options) ==
    /\ c # most_common_category
    /\ max_count > TallyCount(category_to_count, c)
    /\ max_count > options.min_detections_to_overwrite_secondary
    /\ TallyCount(category_to_count, c) <= options.max_detections_nondominant_class

\* Is detection det rewritten by the dominant flip, given the tally taken
\* after pass 1?
IsFlipped(det, category_to_count, options, other_category_ids) ==
    /\ category_to_count[1].cat \notin other_category_ids
    /\ IsCounted(det, options)
    /\ ShouldFlip(CategoryOf(det), category_to_count[1].cat,
                  category_to_count[1].n, category_to_count, options)

\* Pass 2, given the tally category_to_count taken after pass 1: the
\* detection list after it and n_detections_flipped_this_image.
DominantFlipGiven(detections, options, other_category_ids, category_to_count) ==
       [detections |->
          [i \in DOMAIN detections |->
             IF IsFlipped(detections[i], category_to_count, options, other_category_ids)
             THEN Relabel(detections[i], category_to_count[1].cat)
             ELSE detections[i]],
        n |-> Cardinality({ i \in DOMAIN detections :
                IsFlipped(detections[i], category_to_count, options,
                          other_category_ids) })]

\* Pass 2, with the re-count of line 341 computed once.
DominantFlip(detections, options, other_category_ids) ==
    CHOOSE r \in { DominantFlipGiven(detections, options, other_category_ids, t) :
                     t \in { CountDetectionsByCategory(detections, options) } } : TRUE

\* IsSubstring in which the empty string is part of no string.
IsSubstring_NotOfEmpty(a, b) ==
    /\ Len(a) > 0
    /\ \E k \in 0..(Len(b) - Len(a)) : SubSeq(b, k + 1, k + Len(a)) = a

\* Python's `a in b` for strings: a is a contiguous part of b.
IsSubstring(a, b) ==
    \E k \in 0..(Len(b) - Len(a)) : SubSeq(b, k + 1, k + Len(a)) = a

\* IsMoreCommonChild without the comparison of the counts.
IsMoreCommonChild_AnyCount(candidate, this, count_this_category, category_to_count, table) ==
    /\ candidate # this
    /\ Len(table[candidate]) # 0
    /\ IsSubstring(table[this], table[candidate])

\* IsMoreCommonChild with a tied child accepted (>= for >).
IsMoreCommonChild_AllowTies(candidate, this, count_this_category, category_to_count, table) ==
    /\ candidate # this
    /\ Len(table[candidate]) # 0
    /\ IsSubstring(table[this], table[candidate])
    /\ TallyCount(category_to_count, candidate) >= count_this_category

\* The test a candidate child must pass to replace category this (whose
\* count is count_this_category).
IsMoreCommonChild(candidate, this, count_this_category, category_to_count, table) ==
    /\ candidate # this
    /\ Len(table[candidate]) # 0
    /\ IsSubstring(table[this], table[candidate])
    /\ TallyCount(category_to_count, candidate) > count_this_category

RECURSIVE ScanCandidates(_, _, _, _, _, _)
\* The inner loop of pass 3 for one detection of category this, from the
\* j-th key of the tally on: every candidate that passes the test overwrites
\* c[0] and adds one to the change count, so the last one stands.  acc is
\* [cat, n] so far.
ScanCandidates(category_to_count, j, this, count_this_category, table, acc) ==
    IF j > Len(category_to_count) THEN acc
    ELSE ScanCandidates(category_to_count, j + 1, this, count_this_category, table,
           IF IsMoreCommonChild(category_to_count[j].cat, this,
                                count_this_category, category_to_count, table)
           THEN [cat |-> category_to_count[j].cat, n |-> acc.n + 1]
           ELSE acc)

\* The guard of pass 3.
ShouldCollapse(classification_descriptions_clean, category_to_count) ==
    /\ classification_descriptions_clean.present
    /\ DOMAIN classification_descriptions_clean.table # {}
    /\ Len(category_to_count) > 1

RECURSIVE SumN(_, _)
\* Sum of f[i].n for i in 1..k.
SumN(f, k) == IF k = 0 THEN 0 ELSE f[k].n + SumN(f, k - 1)

RECURSIVE LiveCollapse(_, _, _, _, _, _)
\* Pass 3 from detection i on with the tally taken anew for each detection.
LiveCollapse(detections, i, options, table, fires, n) ==
    IF i > Len(detections) THEN [detections |-> detections, n |-> n]
    ELSE LET category_to_count == CountDetectionsByCategory(detections, options)
             scan == IF fires /\ IsCounted(detections[i], options)
                     THEN ScanCandidates(category_to_count, 1,
                            CategoryOf(detections[i]),
                            TallyCount(category_to_count, CategoryOf(detections[i])),
                            table,
                            [cat |-> CategoryOf(detections[i]), n |-> 0])
                     ELSE [cat |-> "", n |-> 0]
         IN LiveCollapse(IF scan.n > 0
                         THEN [detections EXCEPT ![i] = Relabel(detections[i], scan.cat)]
                         ELSE detections,
                         i + 1, options, table, fires, n + scan.n)

\* TaxonomicCollapseGiven with the tally updated as detections are relabeled.
TaxonomicCollapseGiven_LiveTally(detections, options, classification_descriptions_clean, category_to_count) ==
    LiveCollapse(detections, 1, options, classification_descriptions_clean.table,
                 ShouldCollapse(classification_descriptions_clean, category_to_count), 0)

\* Pass 3, given the tally category_to_count taken after pass 2: the
\* detection list after it and n_taxonomic_changes_this_image.
TaxonomicCollapseGiven(detections, options, classification_descriptions_clean, category_to_count) ==
    LET fires == ShouldCollapse(classification_descriptions_clean, category_to_count)
        scan == [i \in DOMAIN detections |->
                   IF fires /\ IsCounted(detections[i], options)
                   THEN ScanCandidates(category_to_count, 1,
                          CategoryOf(detections[i]),
                          TallyCount(category_to_count, CategoryOf(detections[i])),
                          classification_descriptions_clean.table,
                          [cat |-> CategoryOf(detections[i]), n |-> 0])
                   ELSE [cat |-> "", n |-> 0]]
    IN [detections |->
          [i \in DOMAIN detections |->
             IF scan[i].n > 0 THEN Relabel(detections[i], scan[i].cat)
             ELSE detections[i]],
        n |-> SumN(scan, Len(detections))]

\* Pass 3, with the re-count of line 383 computed once.
TaxonomicCollapse(detections, options, classification_descriptions_clean) ==
    CHOOSE r \in { TaxonomicCollapseGiven(detections, options,
                                          classification_descriptions_clean, t) :
                     t \in { CountDetectionsByCategory(detections, options) } } : TRUE

\* The whole smoother as a function of its arguments: what it returns
\* ("None" or the dict of three counts) and the list it leaves.
SmoothClassificationsForListOfDetections(detections, options, other_category_ids, classification_descriptions_clean) ==
    IF Len(CountDetectionsByCategory(detections, options)) <= 1
    THEN [result |-> "None", detections |-> detections,
          n_other |-> 0, n_flipped |-> 0, n_taxonomic |-> 0]
    ELSE LET p1 == OverwriteOther(detections, options, other_category_ids)
             p2 == DominantFlip(p1.detections, options, other_category_ids)
             p3 == TaxonomicCollapse(p2.detections, options,
                                     classification_descriptions_clean)
         IN [result |-> "dict", detections |-> p3.detections,
             n_other |-> p1.n, n_flipped |-> p2.n, n_taxonomic |-> p3.n]

\* ------------------------------------------- _prepare_results_for_smoothing

\* is_list_sorted(L, reverse=True) of megadetector.utils.ct_utils: no
\* element is smaller than its successor.
IsListSortedDescending(L) == \A i \in 1..(Len(L) - 1) : L[i] >= L[i + 1]

\* [c[1] for c in det['classifications']]
ClassificationConfidenceValues(det) ==
    [i \in DOMAIN det.classifications |-> det.classifications[i].conf]

\* The images the loops over images skip: 'detections' missing, None or
\* empty.
HasNoDetections(im) == ~im.has_detections \/ Len(im.detections) = 0

\* The assertion of line 216 fails on this detection.
IsUnsorted(det) ==
    /\ det.has
    /\ Len(det.classifications) > 0
    /\ ~IsListSortedDescending(ClassificationConfidenceValues(det))

\* KeepTopClassification that leaves every classification list as it is.
KeepTopClassification_KeepAll(det) ==
    IF det.has /\ Len(det.classifications) = 0
    THEN [det EXCEPT !.has = FALSE]
    ELSE det

\* Lines 209-217 for a detection that passes the assertion: the key is
\* deleted when the list is empty, else the list is cut to its first entry.
KeepTopClassification(det) ==
    IF ~det.has THEN det
    ELSE IF Len(det.classifications) = 0 THEN [det EXCEPT !.has = FALSE]
    ELSE [det EXCEPT !.classifications = << det.classifications[1] >>]

\* NormalizeFailsBefore that never fails: the assertion of line 216 left out.
NormalizeFailsBefore_NoAssertion(images, k, j) == FALSE

\* The loop of lines 200-217 has failed by the time it is done with
\* detection j of image k.
NormalizeFailsBefore(images, k, j) ==
    \E k2 \in DOMAIN images :
      \E j2 \in DOMAIN images[k2].detections :
        /\ k2 < k \/ (k2 = k /\ j2 <= j)
        /\ ~HasNoDetections(images[k2])
        /\ IsUnsorted(images[k2].detections[j2])

\* The loop of lines 200-217 fails on some detection.
NormalizeFails(images) ==
    \E k \in DOMAIN images :
      NormalizeFailsBefore(images, k, Len(images[k].detections))

\* The images as the loop of lines 200-217 leaves them: every detection it
\* got through before a failure is cut to its top classification.
NormalizedImages(images) ==
    [k \in DOMAIN images |->
       IF HasNoDetections(images[k]) THEN images[k]
       ELSE [images[k] EXCEPT !.detections =
               [j \in DOMAIN images[k].detections |->
                  IF NormalizeFailsBefore(images, k, j)
                  THEN images[k].detections[j]
                  ELSE KeepTopClassification(images[k].detections[j])]]]

\* IsInPlace that never copies.
IsInPlace_NeverCopies(options) == TRUE

\* Lines 182-186: the dict is worked on in place when
\* options.modify_in_place is set, and deep-copied otherwise.
IsInPlace(options) == options.modify_in_place

\* Lines 191-195: the ids of the categories whose name is one of
\* options.other_category_names (category names are distinct).
OtherCategoryIds(d, options) ==
    { k \in DOMAIN d.classification_categories :
        d.classification_categories[k] \in options.other_category_names }

\* Lines 227-236.
CleanDescriptions(d) ==
    IF d.has_descriptions
    THEN [present |-> TRUE,
          table |-> [c \in DOMAIN d.classification_category_descriptions |->
                       d.classification_category_descriptions[c].clean]]
    ELSE NoDescriptions

\* _get_description_string: the string 'name (count), name (count), ...'
\* held as the list of its [name, count] parts, in the order of the tally.
GetDescriptionString(category_to_count, classification_descriptions) ==
    [i \in DOMAIN category_to_count |->
       [name |-> IF classification_descriptions[category_to_count[i].cat].name = ""
                 THEN "undefined category"
                 ELSE classification_descriptions[category_to_count[i].cat].name,
        count |-> category_to_count[i].n]]

\* Line 144 subscripts classification_descriptions, which is None when the
\* dict has no descriptions: the call raises TypeError for an image with a
\* non-empty tally.
DescriptionFails(im, d, options) ==
    /\ ~HasNoDetections(im)
    /\ ~d.has_descriptions
    /\ Len(CountDetectionsByCategory(im.detections, options)) > 0

\* The loop of lines 243-252 fails on some image.
AddDescriptionsFails(d, options) ==
    \E k \in DOMAIN d.images : DescriptionFails(d.images[k], d, options)

\* WithPreSmoothingDescriptions that describes each image as image-level
\* smoothing leaves it.
WithPreSmoothingDescriptions_AfterSmoothing(d, options) ==
    [k \in DOMAIN d.images |->
       IF \/ HasNoDetections(d.images[k])
          \/ \E k2 \in 1..k : DescriptionFails(d.images[k2], d, options)
       THEN d.images[k]
       ELSE [d.images[k] EXCEPT
               !.has_description = TRUE,
               !.pre_smoothing_description =
                  IF d.has_descriptions
                  THEN GetDescriptionString(
                         CountDetectionsByCategory(
                           SmoothClassificationsForListOfDetections(
                             d.images[k].detections, options,
                             OtherCategoryIds(d, options),
                             CleanDescriptions(d)).detections, options),
                         d.classification_category_descriptions)
                  ELSE << >>]]

\* The images as the loop of lines 243-252 leaves them: every image with
\* detections that it got through before a failure has its description.
WithPreSmoothingDescriptions(d, options) ==
    [k \in DOMAIN d.images |->
       IF \/ HasNoDetections(d.images[k])
          \/ \E k2 \in 1..k : DescriptionFails(d.images[k2], d, options)
       THEN d.images[k]
       ELSE [d.images[k] EXCEPT
               !.has_description = TRUE,
               !.pre_smoothing_description =
                  IF d.has_descriptions
                  THEN GetDescriptionString(
                         CountDetectionsByCategory(d.images[k].detections, options),
                         d.classification_category_descriptions)
                  ELSE << >>]]

\* _prepare_results_for_smoothing for an already-loaded dict: how it ends
\* ("ok", or the exception raised) and the dict d as it is then.
PrepareResultsForSmoothing(input_file, options) ==
    LET normalized == [input_file EXCEPT !.images = NormalizedImages(input_file.images)]
        described == [normalized EXCEPT
                        !.images = WithPreSmoothingDescriptions(normalized, options)]
    IN IF NormalizeFails(input_file.images)
       THEN [status |-> "AssertionError", d |-> normalized]
       ELSE IF ~options.add_pre_smoothing_description
       THEN [status |-> "ok", d |-> normalized]
       ELSE IF AddDescriptionsFails(normalized, options)
       THEN [status |-> "TypeError", d |-> described]
       ELSE [status |-> "ok", d |-> described]

\* ------------------------------------------------------------- the drivers

\* The counters of the smoothing loops: n_images_changed and its kin count
\* sequences in the sequence-level driver (n_sequences_changed, ...).
NoTotals ==
    [n_other_classifications_changed |-> 0, n_other_images_changed |-> 0,
     n_taxonomic_images_changed |-> 0, n_detections_flipped |-> 0,
     n_images_changed |-> 0, n_taxonomic_classification_changes |-> 0]

\* Accumulate that assigns the detection counts of the unit (= for +=).
Accumulate_Assign(totals, r) ==
    IF r.result = "None" THEN totals
    ELSE [n_detections_flipped |-> r.n_flipped,
          n_other_classifications_changed |-> r.n_other,
          n_taxonomic_classification_changes |-> r.n_taxonomic,
          n_images_changed |->
             totals.n_images_changed + (IF r.n_flipped > 0 THEN 1 ELSE 0),
          n_other_images_changed |->
             totals.n_other_images_changed + (IF r.n_other > 0 THEN 1 ELSE 0),
          n_taxonomic_images_changed |->
             totals.n_taxonomic_images_changed + (IF r.n_taxonomic > 0 THEN 1 ELSE 0)]

\* Lines 562-579 and 704-721: the counters after a unit for which the
\* smoother returned r.
Accumulate(totals, r) ==
    IF r.result = "None" THEN totals
    ELSE [n_detections_flipped |-> totals.n_detections_flipped + r.n_flipped,
          n_other_classifications_changed |->
             totals.n_other_classifications_changed + r.n_other,
          n_taxonomic_classification_changes |->
             totals.n_taxonomic_classification_changes + r.n_taxonomic,
          n_images_changed |->
             totals.n_images_changed + (IF r.n_flipped > 0 THEN 1 ELSE 0),
          n_other_images_changed |->
             totals.n_other_images_changed + (IF r.n_other > 0 THEN 1 ELSE 0),
          n_taxonomic_images_changed |->
             totals.n_taxonomic_images_changed + (IF r.n_taxonomic > 0 THEN 1 ELSE 0)]

\* _smooth_single_image: what the smoother returns for the image, None for
\* an image without detections.
SmoothSingleImage(im, options, other_category_ids, classification_descriptions_clean) ==
    IF HasNoDetections(im)
    THEN [result |-> "None", detections |-> im.detections,
          n_other |-> 0, n_flipped |-> 0, n_taxonomic |-> 0]
    ELSE SmoothClassificationsForListOfDetections(im.detections, options,
           other_category_ids, classification_descriptions_clean)

\* ImageFilenamesThisSequence that puts every listed image in every
\* sequence.
ImageFilenamesThisSequence_AllImages(cct_sequence_information, sequence_id) ==
    [i \in DOMAIN cct_sequence_information |-> cct_sequence_information[i].file_name]

\* Lines 658-662: the file names of a sequence, in the order in which the
\* sequence information lists them.
ImageFilenamesThisSequence(cct_sequence_information, sequence_id) ==
    LET listed == SelectSeq(cct_sequence_information,
                            LAMBDA im : im.seq_id = sequence_id)
    IN [i \in DOMAIN listed |-> listed[i].file_name]

\* Lines 665-669 and 689: the image of the results with a file name.
ImageFnToClassificationResults(images, fn) ==
    CHOOSE k \in DOMAIN images : images[k].file = fn

\* The detections an image adds to its sequence (lines 690-692).
DetectionsOf(im) == IF im.has_detections THEN im.detections ELSE << >>

RECURSIVE DetectionsThisSequence(_, _, _)
\* Lines 687-692: the detections of the images listed from position i on.
DetectionsThisSequence(images, image_filenames_this_sequence, i) ==
    IF i > Len(image_filenames_this_sequence) THEN << >>
    ELSE DetectionsOf(images[ImageFnToClassificationResults(images,
                               image_filenames_this_sequence[i])])
         \o DetectionsThisSequence(images, image_filenames_this_sequence, i + 1)

\* The images after the smoother has rewritten detections_this_sequence to
\* smoothed: the list holds the images' own detection objects, so each
\* image sees its part of the list.
SeenThroughImages(images, image_filenames_this_sequence, smoothed) ==
    [k \in DOMAIN images |->
       IF \E i \in DOMAIN image_filenames_this_sequence :
            image_filenames_this_sequence[i] = images[k].file
       THEN LET i == CHOOSE i \in DOMAIN image_filenames_this_sequence :
                       image_filenames_this_sequence[i] = images[k].file
                before == Len(smoothed)
                          - Len(DetectionsThisSequence(images,
                                  image_filenames_this_sequence, i))
            IN IF images[k].has_detections
               THEN [images[k] EXCEPT !.detections =
                       SubSeq(smoothed, before + 1,
                              before + Len(images[k].detections))]
               ELSE images[k]
       ELSE images[k]]

RECURSIVE ListedDetections(_, _, _)
\* Lines 687-692: which detection each element of detections_this_sequence
\* is, as <<image, position in the image's list>>, for the images listed
\* from position i on.  extend() puts the images' own detection objects in
\* the list, so an image listed twice puts each of its detections in twice.
ListedDetections(images, image_filenames_this_sequence, i) ==
    IF i > Len(image_filenames_this_sequence) THEN << >>
    ELSE (LET k == ImageFnToClassificationResults(images,
                      image_filenames_this_sequence[i])
          IN [j \in DOMAIN DetectionsOf(images[k]) |-> << k, j >>])
         \o ListedDetections(images, image_filenames_this_sequence, i + 1)

\* For each element of a list of detection objects, the first position of
\* the list that holds the same object.
SameObject(listed) ==
    [p \in DOMAIN listed |->
       CHOOSE q \in 1..p : listed[q] = listed[p]
                            /\ \A q2 \in 1..(q - 1) : listed[q2] # listed[p]]

\* c[0] = cat on the object at position i: every position that holds the
\* object shows it.
WriteCategory(detections, same, i, cat) ==
    [p \in DOMAIN detections |->
       IF same[p] = same[i] THEN Relabel(detections[p], cat) ELSE detections[p]]

RECURSIVE OverwriteOtherInPlace(_, _, _, _, _, _, _)
\* The loop of pass 1 (lines 318-336) from position i on, on a list that may
\* hold an object more than once: each element is tested as it is when the
\* loop reaches it.
OverwriteOtherInPlace(detections, same, i, most_common_category, options, other_category_ids, n) ==
    IF i > Len(detections) THEN [detections |-> detections, n |-> n]
    ELSE IF IsOverwrittenOther(detections[i], options, other_category_ids)
         THEN OverwriteOtherInPlace(
                WriteCategory(detections, same, i, most_common_category),
                same, i + 1, most_common_category, options, other_category_ids,
                n + 1)
         ELSE OverwriteOtherInPlace(detections, same, i + 1, most_common_category,
                                    options, other_category_ids, n)

RECURSIVE DominantFlipInPlace(_, _, _, _, _, _, _)
\* The loop of pass 2 (lines 356-372) from position i on, likewise, with the
\* tally category_to_count taken after pass 1.
DominantFlipInPlace(detections, same, i, category_to_count, options, other_category_ids, n) ==
    IF i > Len(detections) THEN [detections |-> detections, n |-> n]
    ELSE IF IsFlipped(detections[i], category_to_count, options, other_category_ids)
         THEN DominantFlipInPlace(
                WriteCategory(detections, same, i, category_to_count[1].cat),
                same, i + 1, category_to_count, options, other_category_ids, n + 1)
         ELSE DominantFlipInPlace(detections, same, i + 1, category_to_count,
                                  options, other_category_ids, n)

RECURSIVE TaxonomicCollapseInPlace(_, _, _, _, _, _, _)
\* The loop of pass 3 (lines 406-444) from position i on, likewise, with the
\* tally category_to_count taken after pass 2.
TaxonomicCollapseInPlace(detections, same, i, category_to_count, table, options, n) ==
    IF i > Len(detections) THEN [detections |-> detections, n |-> n]
    ELSE LET scan == IF IsCounted(detections[i], options)
                     THEN ScanCandidates(category_to_count, 1,
                            CategoryOf(detections[i]),
                            TallyCount(category_to_count, CategoryOf(detections[i])),
                            table,
                            [cat |-> CategoryOf(detections[i]), n |-> 0])
                     ELSE [cat |-> "", n |-> 0]
         IN TaxonomicCollapseInPlace(
              IF scan.n > 0 THEN WriteCategory(detections, same, i, scan.cat)
              ELSE detections,
              same, i + 1, category_to_count, table, options, n + scan.n)

\* The smoother on a list that may hold an object more than once, as the
\* list the sequence-level driver builds may: same is SameObject of the
\* list.  On a list of distinct objects it is
\* SmoothClassificationsForListOfDetections.
SmoothListedDetections(detections, same, options, other_category_ids, classification_descriptions_clean) ==
    LET category_to_count == CountDetectionsByCategory(detections, options)
    IN IF Len(category_to_count) <= 1
       THEN [result |-> "None", detections |-> detections,
             n_other |-> 0, n_flipped |-> 0, n_taxonomic |-> 0]
       ELSE LET keys == SwapTiedOther(category_to_count, other_category_ids)
                p1 == IF ShouldOverwriteOther(keys[1].n, keys[1].cat, options,
                                              other_category_ids)
                      THEN OverwriteOtherInPlace(detections, same, 1, keys[1].cat,
                                                 options, other_category_ids, 0)
                      ELSE [detections |-> detections, n |-> 0]
                p2 == DominantFlipInPlace(p1.detections, same, 1,
                        CountDetectionsByCategory(p1.detections, options),
                        options, other_category_ids, 0)
                after_pass2_count == CountDetectionsByCategory(p2.detections, options)
                p3 == IF ShouldCollapse(classification_descriptions_clean,
                                        after_pass2_count)
                      THEN TaxonomicCollapseInPlace(p2.detections, same, 1,
                             after_pass2_count,
                             classification_descriptions_clean.table, options, 0)
                      ELSE [detections |-> p2.detections, n |-> 0]
            IN [result |-> "dict", detections |-> p3.detections,
                n_other |-> p1.n, n_flipped |-> p2.n, n_taxonomic |-> p3.n]

\* One round of the loop of lines 554-579, for image k: the dict and the
\* counters after it.
AfterImage(d, totals, k, options, other_category_ids, classification_descriptions_clean) ==
    CHOOSE after \in
      { [d |-> [d EXCEPT !.images[k].detections = r.detections],
         totals |-> Accumulate(totals, r)] :
          r \in { SmoothSingleImage(d.images[k], options, other_category_ids,
                                    classification_descriptions_clean) } } : TRUE

\* One round of the loop of lines 683-721, for one key of
\* sequence_to_image_filenames: the dict and the counters after it.  A
\* sequence without detections is skipped.  The smoother rewrites the
\* images' own detection objects, also when the sequence lists an image
\* more than once.
AfterSequence(d, totals, sequence_id, cct_sequence_information, options, other_category_ids, classification_descriptions_clean) ==
    LET image_filenames_this_sequence ==
          ImageFilenamesThisSequence(cct_sequence_information, sequence_id)
        detections_this_sequence ==
          DetectionsThisSequence(d.images, image_filenames_this_sequence, 1)
    IN IF Len(detections_this_sequence) = 0
       THEN [d |-> d, totals |-> totals]
       ELSE CHOOSE after \in
              { [d |-> [d EXCEPT !.images =
                          SeenThroughImages(d.images,
                            image_filenames_this_sequence, r.detections)],
                 totals |-> Accumulate(totals, r)] :
                  r \in { SmoothListedDetections(
                            detections_this_sequence,
                            SameObject(ListedDetections(d.images,
                              image_filenames_this_sequence, 1)),
                            options, other_category_ids,
                            classification_descriptions_clean) } } : TRUE

\* ------------------------------------------------------------ state machine

VARIABLES
    detections,      \* the unit: the list the smoother reads and rewrites
    options,         \* the ClassificationSmoothingOptions object
    other_category_ids,
    classification_descriptions_clean,
    pc,              \* position in the smoother: count, pass1, pass2, pass3, done
    run,             \* which run of the smoother on this unit
    n_other_classifications_changed_this_image,
    n_detections_flipped_this_image,
    n_taxonomic_changes_this_image,
    result,          \* "pending", "None" or "dict" (the three counts)
    at_start,        \* the list as it was when the current run began
    after_pass1,     \* the list as pass 1 of the current run left it
    after_pass2,     \* the list as pass 2 of the current run left it
    original,        \* the list as the caller first passed it
    function,        \* the driver called: "image_level" or "sequence_level"
    input_file,      \* the caller's results dict, as it is now
    given,           \* the caller's results dict, as it was passed
    d,               \* the dict the driver works on
    in_place,        \* d is the caller's dict itself, not a copy
    cct_sequence_information,
    output_file,     \* TRUE when an output file is named
    written,         \* what has been written to the output file
    step,            \* position in the driver: prepare, smooth, done, error
    error,           \* the exception that ended the run
    prepared,        \* d as _prepare_results_for_smoothing returned it
    processed,       \* the units the smoothing loop has been through
    totals           \* the counters of the smoothing loop

smoother_vars == << detections, pc, run,
                    n_other_classifications_changed_this_image,
                    n_detections_flipped_this_image,
                    n_taxonomic_changes_this_image,
                    result, at_start, after_pass1, after_pass2, original >>

driver_vars == << function, input_file, given, d, in_place,
                  cct_sequence_information, output_file, written, step,
                  error, prepared, processed, totals >>

vars == << options, other_category_ids, classification_descriptions_clean,
           smoother_vars, driver_vars >>

arguments == << options, other_category_ids, classification_descriptions_clean,
                original >>

\* Units and arguments of the general family: short units of counted and
\* uncounted detections in every order, under small tunables.
GeneralInputs ==
    /\ detections \in GeneralUnits
    /\ options \in SmallOptions
    /\ other_category_ids \in { {"1"}, {"1", "2"} }
    /\ classification_descriptions_clean \in { EmptyDescriptions, FoxDescriptions }

\* Units and arguments of the scenario family: longer units of counted
\* detections under the default tunables and three variations.
ScenarioInputs ==
    /\ detections \in ScenarioUnits
    /\ options \in ScenarioOptions
    /\ other_category_ids \in OtherIdSets
    /\ classification_descriptions_clean
         \in { NoDescriptions, FoxDescriptions, UnrelatedDescriptions }

\* Units and arguments of the taxonomy family: the longest units of counted
\* detections, under the default tunables, with no other category and the
\* fox taxonomy.
TaxonomyInputs ==
    /\ detections \in TaxonomyUnits
    /\ options = ClassificationSmoothingOptions
    /\ other_category_ids = {}
    /\ classification_descriptions_clean = FoxDescriptions

\* No driver is running: the smoother is called on its own.
NoDriver ==
    /\ function = "none"
    /\ input_file = NoDict
    /\ given = NoDict
    /\ d = NoDict
    /\ in_place = FALSE
    /\ cct_sequence_information = << >>
    /\ output_file = FALSE
    /\ written = << >>
    /\ step = "idle"
    /\ error = "none"
    /\ prepared = NoDict
    /\ processed = {}
    /\ totals = NoTotals

Init ==
    /\ GeneralInputs \/ ScenarioInputs \/ TaxonomyInputs
    /\ pc = "count"
    /\ run = 1
    /\ n_other_classifications_changed_this_image = 0
    /\ n_detections_flipped_this_image = 0
    /\ n_taxonomic_changes_this_image = 0
    /\ result = "pending"
    /\ at_start = detections
    /\ after_pass1 = detections
    /\ after_pass2 = detections
    /\ original = detections
    /\ NoDriver

\* Count that returns None only when the initial tally is empty.
Count_NoneOnlyForEmptyTally ==
    /\ pc = "count"
    /\ IF Len(CountDetectionsByCategory(detections, options)) = 0
       THEN pc' = "done" /\ result' = "None"
       ELSE pc' = "pass1" /\ result' = "pending"
    /\ UNCHANGED << detections, arguments, run,
                    n_other_classifications_changed_this_image,
                    n_detections_flipped_this_image,
                    n_taxonomic_changes_this_image,
                    at_start, after_pass1, after_pass2 >>
    /\ UNCHANGED driver_vars

\* The initial tally; with at most one category the smoother returns None.
Count ==
    /\ pc = "count"
    /\ IF Len(CountDetectionsByCategory(detections, options)) <= 1
       THEN pc' = "done" /\ result' = "None"
       ELSE pc' = "pass1" /\ result' = "pending"
    /\ UNCHANGED << detections, arguments, run,
                    n_other_classifications_changed_this_image,
                    n_detections_flipped_this_image,
                    n_taxonomic_changes_this_image,
                    at_start, after_pass1, after_pass2 >>
    /\ UNCHANGED driver_vars

\* Tie-break and "other" override.
Pass1 ==
    /\ pc = "pass1"
    /\ LET r == OverwriteOther(detections, options, other_category_ids)
       IN /\ detections' = r.detections
          /\ after_pass1' = r.detections
          /\ n_other_classifications_changed_this_image' = r.n
    /\ pc' = "pass2"
    /\ UNCHANGED << arguments, run, n_detections_flipped_this_image,
                    n_taxonomic_changes_this_image, result, at_start,
                    after_pass2 >>
    /\ UNCHANGED driver_vars

\* Re-count and dominant flip.
Pass2 ==
    /\ pc = "pass2"
    /\ LET r == DominantFlip(detections, options, other_category_ids)
       IN /\ detections' = r.detections
          /\ after_pass2' = r.detections
          /\ n_detections_flipped_this_image' = r.n
    /\ pc' = "pass3"
    /\ UNCHANGED << arguments, run, n_other_classifications_changed_this_image,
                    n_taxonomic_changes_this_image, result, at_start,
                    after_pass1 >>
    /\ UNCHANGED driver_vars

\* Re-count, taxonomic collapse, and the return of the three counts.
Pass3 ==
    /\ pc = "pass3"
    /\ LET r == TaxonomicCollapse(detections, options,
                                  classification_descriptions_clean)
       IN /\ detections' = r.detections
          /\ n_taxonomic_changes_this_image' = r.n
    /\ pc' = "done"
    /\ result' = "dict"
    /\ UNCHANGED << arguments, run, n_other_classifications_changed_this_image,
                    n_detections_flipped_this_image, at_start,
                    after_pass1, after_pass2 >>
    /\ UNCHANGED driver_vars

\* The caller runs the smoother again on the list it was left with, with
\* the same arguments.
Rerun ==
    /\ pc = "done"
    /\ run < MaxRuns
    /\ run' = run + 1
    /\ pc' = "count"
    /\ result' = "pending"
    /\ n_other_classifications_changed_this_image' = 0
    /\ n_detections_flipped_this_image' = 0
    /\ n_taxonomic_changes_this_image' = 0
    /\ at_start' = detections
    /\ after_pass1' = detections
    /\ after_pass2' = detections
    /\ UNCHANGED << detections, arguments >>
    /\ UNCHANGED driver_vars

Next == Count \/ Pass1 \/ Pass2 \/ Pass3 \/ Rerun

Spec == Init /\ [][Next]_vars

TypeOK ==
    /\ pc \in {"count", "pass1", "pass2", "pass3", "done"}
    /\ result \in {"pending", "None", "dict"}
    /\ run \in 1..MaxRuns
    /\ Len(detections) = Len(at_start)
    /\ Len(detections) = Len(original)

\* ------------------------------------------------ state machine of the drivers

\* smooth_classification_results_image_level and
\* smooth_classification_results_sequence_level, called with an
\* already-loaded dict.  The smoothing loops of lines 554 and 683 go through
\* the units in list order; here the next unit is any unit not yet
\* processed, which covers that order and every order of a parallel map
\* over the units.

\* The smoother's own position is not tracked while a driver runs: each unit
\* is one call of SmoothClassificationsForListOfDetections.
NoSmootherState ==
    /\ detections = << >>
    /\ pc = "idle"
    /\ run = 0
    /\ n_other_classifications_changed_this_image = 0
    /\ n_detections_flipped_this_image = 0
    /\ n_taxonomic_changes_this_image = 0
    /\ result = "pending"
    /\ at_start = << >>
    /\ after_pass1 = << >>
    /\ after_pass2 = << >>
    /\ original = << >>

\* One image holding any list of up to MaxRawDets detections as a results
\* file may hold them (or no list at all), with and without category
\* descriptions, under the default options and two variations.
NormalizerInputs ==
    /\ input_file \in
         { Results(<< Image(1, TRUE, dets) >>, has_descriptions) :
             dets \in SeqsUpTo(RawKinds, MaxRawDets),
             has_descriptions \in BOOLEAN }
         \cup { Results(<< Image(1, FALSE, << >>) >>, has_descriptions) :
                  has_descriptions \in BOOLEAN }
    /\ options \in { ClassificationSmoothingOptions, InPlaceOptions,
                      NoDescriptionOptions }
    /\ function \in {"image_level", "sequence_level"}
    /\ cct_sequence_information = OneSequence(1)
    /\ output_file = TRUE

\* Up to MaxImages images of the kinds of ImageKinds, grouped into one or
\* two sequences, under the default options and small tunables.
SequenceInputs ==
    /\ input_file \in { Results(ImagesOf(contents), TRUE) :
                           contents \in SeqsUpTo(ImageKinds, MaxImages) }
    /\ options \in { ClassificationSmoothingOptions, TightOptions }
    /\ \/ /\ function = "image_level"
          /\ cct_sequence_information = OneSequence(Len(input_file.images))
       \/ /\ function = "sequence_level"
          /\ cct_sequence_information \in SequenceInformation(Len(input_file.images))
    /\ output_file = FALSE

\* One sequence of MaxSequenceImages images, all of one category but one,
\* under the default options.
StrayImageInputs ==
    /\ input_file \in { Results(images, TRUE) : images \in StrayImageLists }
    /\ options = ClassificationSmoothingOptions
    /\ function \in {"image_level", "sequence_level"}
    /\ cct_sequence_information = OneSequence(MaxSequenceImages)
    /\ output_file = TRUE

DriverInit ==
    /\ NormalizerInputs \/ SequenceInputs \/ StrayImageInputs
    /\ given = input_file
    /\ d = NoDict
    /\ in_place = FALSE
    /\ written = << >>
    /\ step = "prepare"
    /\ error = "none"
    /\ prepared = NoDict
    /\ processed = {}
    /\ totals = NoTotals
    /\ other_category_ids = {}
    /\ classification_descriptions_clean = NoDescriptions
    /\ NoSmootherState

\* What the caller's dict holds once the working dict is new_d.
CallersDict(new_d) == IF in_place THEN new_d ELSE input_file

\* Lines 536-540 and 638-642: _prepare_results_for_smoothing, which copies
\* the dict unless options.modify_in_place, and may raise.
Prepare ==
    /\ step = "prepare"
    /\ in_place' = IsInPlace(options)
    /\ \E r \in { PrepareResultsForSmoothing(input_file, options) } :
         /\ d' = r.d
         /\ input_file' = IF IsInPlace(options) THEN r.d ELSE input_file
         /\ IF r.status = "ok"
            THEN /\ step' = "smooth"
                 /\ prepared' = r.d
                 /\ other_category_ids' = OtherCategoryIds(r.d, options)
                 /\ classification_descriptions_clean' = CleanDescriptions(r.d)
                 /\ UNCHANGED error
            ELSE /\ step' = "error"
                 /\ error' = r.status
                 /\ UNCHANGED << prepared, other_category_ids,
                                 classification_descriptions_clean >>
    /\ UNCHANGED << options, smoother_vars, function, given,
                    cct_sequence_information, output_file, written,
                    processed, totals >>

\* One round of the loop of lines 554-579.
SmoothImage ==
    /\ step = "smooth"
    /\ function = "image_level"
    /\ \E k \in DOMAIN d.images \ processed :
         \E after \in { AfterImage(d, totals, k, options, other_category_ids,
                                    classification_descriptions_clean) } :
           /\ d' = after.d
           /\ input_file' = CallersDict(after.d)
           /\ totals' = after.totals
           /\ processed' = processed \cup {k}
    /\ UNCHANGED << options, other_category_ids,
                    classification_descriptions_clean, smoother_vars, function,
                    given, in_place, cct_sequence_information, output_file,
                    written, step, error, prepared >>

\* The keys of sequence_to_image_filenames.
SequenceIds ==
    { cct_sequence_information[k].seq_id : k \in DOMAIN cct_sequence_information }

\* One round of the loop of lines 683-721.
SmoothSequence ==
    /\ step = "smooth"
    /\ function = "sequence_level"
    /\ \E sequence_id \in SequenceIds \ processed :
         \E after \in { AfterSequence(d, totals, sequence_id,
                                       cct_sequence_information, options,
                                       other_category_ids,
                                       classification_descriptions_clean) } :
           /\ d' = after.d
           /\ input_file' = CallersDict(after.d)
           /\ totals' = after.totals
           /\ processed' = processed \cup {sequence_id}
    /\ UNCHANGED << options, other_category_ids,
                    classification_descriptions_clean, smoother_vars, function,
                    given, in_place, cct_sequence_information, output_file,
                    written, step, error, prepared >>

\* The units of the driver that is running.
Units == IF function = "image_level" THEN DOMAIN d.images ELSE SequenceIds

\* Lines 595-600 and 737-743: the loop is over; d is written to the output
\* file if one is named, and returned.
Finish ==
    /\ step = "smooth"
    /\ processed = Units
    /\ written' = IF output_file THEN << d >> ELSE << >>
    /\ step' = "done"
    /\ UNCHANGED << options, other_category_ids,
                    classification_descriptions_clean, smoother_vars, function,
                    input_file, given, d, in_place, cct_sequence_information,
                    output_file, error, prepared, processed, totals >>

DriverNext == Prepare \/ SmoothImage \/ SmoothSequence \/ Finish

DriverSpec == DriverInit /\ [][DriverNext]_vars

DriverTypeOK ==
    /\ step \in {"prepare", "smooth", "done", "error"}
    /\ error \in {"none", "AssertionError", "TypeError"}
    /\ function \in {"image_level", "sequence_level"}
    /\ processed \subseteq Units
    /\ Len(d.images) \in {0, Len(given.images)}
    /\ Len(written) <= 1

\* ------------------------------------------------------------------ claims

\* The threshold test as the documentation states it: a classification is
\* present and both confidences reach their thresholds (inclusive).
PassesBothThresholds(det) ==
    /\ det.has
    /\ det.conf >= options.detection_confidence_threshold
    /\ det.classifications[1].conf >= options.classification_confidence_threshold

\* The counted detections of a list, in order.
Visible(dets) == SelectSeq(dets, PassesBothThresholds)

\* Number of counted detections of category c in a list.
VisibleCount(dets, c) ==
    Cardinality({ i \in DOMAIN dets :
                    PassesBothThresholds(dets[i]) /\ CategoryOf(dets[i]) = c })

\* The categories with a counted detection in a list.
VisibleCats(dets) == { c \in Cats : VisibleCount(dets, c) > 0 }

\* The dominant category of the current run and its count: the first key of
\* the initial tally after the tie-break.
Dominant == SwapTiedOther(CountDetectionsByCategory(at_start, options),
                          other_category_ids)[1]

\* The current run got past the initial tally (at least two categories).
Smoothing == pc \in {"pass1", "pass2", "pass3"} \/ (pc = "done" /\ result = "dict")

\* Pass 3 cannot run: no cleaned descriptions, or an empty table.
NoTaxonomy ==
    \/ ~classification_descriptions_clean.present
    \/ DOMAIN classification_descriptions_clean.table = {}

NoChangeReported ==
    \/ result = "None"
    \/ /\ n_other_classifications_changed_this_image = 0
       /\ n_detections_flipped_this_image = 0
       /\ n_taxonomic_changes_this_image = 0

\* C1 (as stated): a second run of the smoother on the list a first run
\* left, with the same arguments, rewrites no category id and reports no
\* change.
C1_SecondRunChangesNothing ==
    (run = 2 /\ pc = "done") => (NoChangeReported /\ detections = at_start)

\* C1 (amended): the second run rewrites nothing and reports no change when
\* pass 3 cannot run (no cleaned descriptions) and the tunables are ordered
\* as the defaults are: max_detections_nondominant_class <=
\* min_detections_to_overwrite_secondary and min_detections_to_overwrite_other
\* <= min_detections_to_overwrite_secondary + 1.
C1_SecondRunChangesNothingWithoutTaxonomy ==
    (/\ run = 2 /\ pc = "done"
     /\ NoTaxonomy
     /\ options.max_detections_nondominant_class
          <= options.min_detections_to_overwrite_secondary
     /\ options.min_detections_to_overwrite_other
          <= options.min_detections_to_overwrite_secondary + 1)
    => (NoChangeReported /\ detections = at_start)

\* Witness of C1: a second run that went through all three passes, on a
\* list the first run had rewritten, without taxonomy and under the default
\* tunables.
C1_Witness ==
    /\ run = 2 /\ pc = "done" /\ result = "dict"
    /\ NoTaxonomy
    /\ options = ClassificationSmoothingOptions
    /\ at_start # original
    /\ detections = at_start

\* C2: a detection that fails either threshold (or has no classification)
\* is the same after every pass as it was when the run began, whatever its
\* category.
C2_BelowThresholdNeverRelabeled ==
    \A i \in DOMAIN at_start :
        ~PassesBothThresholds(at_start[i]) => detections[i] = at_start[i]

\* Witness of C2: a finished run that relabeled a counted "other" detection
\* while the unit also held an "other" detection below a threshold, which
\* it left alone.
C2_Witness ==
    /\ pc = "done"
    /\ n_other_classifications_changed_this_image > 0
    /\ \E i \in DOMAIN at_start :
         /\ at_start[i].has
         /\ ~PassesBothThresholds(at_start[i])
         /\ CategoryOf(at_start[i]) \in other_category_ids
         /\ detections[i] = at_start[i]

\* What the smoother does on the counted detections of the unit alone.
OnVisibleOnly ==
    SmoothClassificationsForListOfDetections(Visible(at_start), options,
        other_category_ids, classification_descriptions_clean)

\* C3: the tally counts exactly the detections that pass both thresholds
\* (inclusive), and a finished run returns the same result and leaves the
\* counted detections with the same categories as a run on the unit
\* stripped of its other detections; so two units with the same counted
\* detections in the same order get the same outcome.
C3_BelowThresholdInvisible ==
    /\ \A category_to_count \in { CountDetectionsByCategory(detections, options) } :
         \A c \in Cats :
            TallyCount(category_to_count, c) = VisibleCount(detections, c)
    /\ pc = "done" =>
         \A r \in { OnVisibleOnly } :
            /\ result = r.result
            /\ Visible(detections) = r.detections
            /\ n_other_classifications_changed_this_image = r.n_other
            /\ n_detections_flipped_this_image = r.n_flipped
            /\ n_taxonomic_changes_this_image = r.n_taxonomic

\* Witness of C3: a finished run that rewrote a counted detection of a unit
\* holding a detection below the detection threshold, one below the
\* classification threshold, or one without classifications.
C3_Witness ==
    /\ pc = "done" /\ result = "dict"
    /\ detections # at_start
    /\ \E i \in DOMAIN at_start : ~PassesBothThresholds(at_start[i])
    /\ \E i \in DOMAIN at_start : /\ PassesBothThresholds(at_start[i])
                                  /\ at_start[i].conf = options.detection_confidence_threshold

\* C4 (as stated): when the dominant count is below
\* min_detections_to_overwrite_other, no counted detection that was in an
\* "other" category when the run began has another category when it ends.
C4_OtherKeptBelowMinimum ==
    (pc = "done" /\ result = "dict") =>
        \A dom \in { Dominant } :
            dom.n < options.min_detections_to_overwrite_other =>
                \A i \in DOMAIN at_start :
                    (/\ PassesBothThresholds(at_start[i])
                     /\ CategoryOf(at_start[i]) \in other_category_ids)
                    => detections[i] = at_start[i]

\* C4 (amended): when the dominant count is below
\* min_detections_to_overwrite_other, pass 1 relabels no detection and its
\* change count is 0 (passes 2 and 3 may still relabel an "other"
\* detection).
C4_OtherKeptByPass1BelowMinimum ==
    (Smoothing /\ pc # "pass1") =>
        \A dom \in { Dominant } :
            dom.n < options.min_detections_to_overwrite_other =>
                /\ after_pass1 = at_start
                /\ n_other_classifications_changed_this_image = 0

\* Witness of C4: a finished run on a unit with a counted "other" detection
\* whose dominant category is not "other" and has too few detections for
\* the override.
C4_Witness ==
    /\ pc = "done" /\ result = "dict"
    /\ Dominant.cat \notin other_category_ids
    /\ Dominant.n < options.min_detections_to_overwrite_other
    /\ \E i \in DOMAIN at_start :
         /\ PassesBothThresholds(at_start[i])
         /\ CategoryOf(at_start[i]) \in other_category_ids
         /\ after_pass1[i] = at_start[i]

\* C5: pass 2 relabels no counted detection whose category has, in the
\* tally taken after pass 1, more than max_detections_nondominant_class
\* detections.
C5_NonDominantProtected ==
    (Smoothing /\ pc \in {"pass3", "done"}) =>
        \A i \in DOMAIN after_pass1 :
            (/\ PassesBothThresholds(after_pass1[i])
             /\ VisibleCount(after_pass1, CategoryOf(after_pass1[i]))
                  > options.max_detections_nondominant_class)
            => after_pass2[i] = after_pass1[i]

\* Witness of C5: pass 2 flipped a small category while it left alone a
\* category smaller than the dominant one but larger than
\* max_detections_nondominant_class.
C5_Witness ==
    /\ pc = "done" /\ result = "dict"
    /\ n_detections_flipped_this_image > 0
    /\ \E i \in DOMAIN after_pass1 :
         /\ PassesBothThresholds(after_pass1[i])
         /\ VisibleCount(after_pass1, CategoryOf(after_pass1[i]))
              > options.max_detections_nondominant_class
         /\ \E c \in Cats \ other_category_ids :
              VisibleCount(after_pass1, c)
                > VisibleCount(after_pass1, CategoryOf(after_pass1[i]))
         /\ after_pass2[i] = after_pass1[i]

\* The unit's counted detections are more than
\* min_detections_to_overwrite_secondary of category a and exactly one of
\* category b, neither an "other" category.
ManyAndOne(dets, a, b) ==
    /\ a # b
    /\ a \notin other_category_ids /\ b \notin other_category_ids
    /\ VisibleCats(dets) = {a, b}
    /\ VisibleCount(dets, a) > options.min_detections_to_overwrite_secondary
    /\ VisibleCount(dets, b) = 1

\* C6: under the default options, a unit of N > 4 counted detections of a
\* category A and one of a category B (neither "other") ends with every
\* counted detection in A and a flip count of 1.
C6_ManyCowsOneDeer ==
    (pc = "done" /\ options = ClassificationSmoothingOptions) =>
        \A a \in Cats, b \in Cats :
            ManyAndOne(at_start, a, b) =>
                /\ result = "dict"
                /\ n_detections_flipped_this_image = 1
                /\ \A i \in DOMAIN detections :
                       PassesBothThresholds(detections[i])
                       => CategoryOf(detections[i]) = a

\* Witness of C6: a finished run under the default options on five of one
\* category and one of another.
C6_Witness ==
    /\ pc = "done" /\ options = ClassificationSmoothingOptions
    /\ \E a \in Cats, b \in Cats : ManyAndOne(at_start, a, b)
    /\ detections # at_start

\* C7: with max_detections_nondominant_class <= 1, pass 2 never replaces
\* the category of a counted detection of a non-"other" class.
C7_NoFlipWhenMaxNondominantAtMostOne ==
    (/\ Smoothing /\ pc \in {"pass3", "done"}
     /\ options.max_detections_nondominant_class <= 1) =>
        \A i \in DOMAIN after_pass1 :
            (/\ PassesBothThresholds(after_pass1[i])
             /\ CategoryOf(after_pass1[i]) \notin other_category_ids)
            => after_pass2[i] = after_pass1[i]

\* C8: a unit whose most common category is not "other", has at least
\* min_detections_to_overwrite_secondary counted detections, and whose
\* second-most-common category has fewer, and no more than
\* max_detections_nondominant_class, ends with every counted detection in
\* the most common category.
C8_FlipAtMinimum ==
    (pc = "done" /\ result = "dict") =>
        \A t \in { CountDetectionsByCategory(at_start, options) } :
            (/\ t[1].cat \notin other_category_ids
             /\ t[1].n >= options.min_detections_to_overwrite_secondary
             /\ t[2].n <= options.max_detections_nondominant_class
             /\ t[2].n < t[1].n)
            => \A i \in DOMAIN detections :
                   PassesBothThresholds(detections[i])
                   => CategoryOf(detections[i]) = t[1].cat

\* The counted "other" detections of the list the run began with.
CountedOther ==
    { i \in DOMAIN at_start :
        /\ PassesBothThresholds(at_start[i])
        /\ CategoryOf(at_start[i]) \in other_category_ids }

\* C9: when the dominant category is not "other" and has at least
\* min_detections_to_overwrite_other detections, pass 1 relabels exactly
\* the counted "other" detections, to the dominant category, and its change
\* count is their number; when the dominant count is below the minimum,
\* pass 1 relabels nothing.
C9_OtherOverride ==
    (Smoothing /\ pc # "pass1") =>
        \A dom \in { Dominant } :
            /\ (/\ dom.cat \notin other_category_ids
                /\ dom.n >= options.min_detections_to_overwrite_other)
               => /\ \A i \in DOMAIN at_start :
                        after_pass1[i] = IF i \in CountedOther
                                         THEN Relabel(at_start[i], dom.cat)
                                         ELSE at_start[i]
                  /\ n_other_classifications_changed_this_image
                       = Cardinality(CountedOther)
            /\ dom.n < options.min_detections_to_overwrite_other
               => after_pass1 = at_start

\* Witness of C9: cow/cow/other with a minimum of 2 became cow/cow/cow.
C9_Witness ==
    /\ pc = "done" /\ result = "dict"
    /\ options.min_detections_to_overwrite_other = 2
    /\ Len(Visible(at_start)) = 3
    /\ Dominant.n = 2
    /\ Cardinality(CountedOther) = 1
    /\ n_other_classifications_changed_this_image = 1
    /\ VisibleCats(detections) = { Dominant.cat }

\* C10: when the first key of the initial tally is an "other" category and
\* the second is a non-"other" category with the same count, at least
\* min_detections_to_overwrite_other, every counted "other" detection ends
\* the run in that non-"other" category.
C10_TieBreak ==
    (pc = "done" /\ result = "dict") =>
        \A t \in { CountDetectionsByCategory(at_start, options) } :
            (/\ t[1].cat \in other_category_ids
             /\ t[2].cat \notin other_category_ids
             /\ t[1].n = t[2].n
             /\ t[1].n >= options.min_detections_to_overwrite_other)
            => \A i \in CountedOther : CategoryOf(detections[i]) = t[2].cat

\* Witness of C10: two categories tied at 3, the "other" one met first, a
\* minimum of 2: all six detections end in the non-"other" category.
C10_Witness ==
    /\ pc = "done" /\ result = "dict"
    /\ options = ClassificationSmoothingOptions
    /\ Len(at_start) = 6
    /\ \E o \in other_category_ids, a \in Cats \ other_category_ids :
         /\ CategoryOf(at_start[1]) = o
         /\ VisibleCount(at_start, o) = 3
         /\ VisibleCount(at_start, a) = 3
         /\ VisibleCount(detections, a) = 6

\* The cleaned description of category c.
DescriptionOf(c) == classification_descriptions_clean.table[c]

\* C11: when propagate_classifications_through_taxonomy is false, pass 3
\* relabels no detection and the taxonomic change count is 0.
C11_NoCollapseWhenPropagationOff ==
    (/\ pc = "done"
     /\ result = "dict"
     /\ ~options.propagate_classifications_through_taxonomy)
    => (/\ n_taxonomic_changes_this_image = 0
        /\ detections = after_pass2)

\* Category c is a strictly more common child of category p in the list
\* pass 2 left: its description is non-empty and contains p's, and it has
\* more counted detections than p.
StrictlyMoreCommonChild(c, p) ==
    /\ c # p
    /\ VisibleCount(after_pass2, c) > 0
    /\ Len(DescriptionOf(c)) > 0
    /\ IsSubstring(DescriptionOf(p), DescriptionOf(c))
    /\ VisibleCount(after_pass2, c) > VisibleCount(after_pass2, p)

\* C12: a detection relabeled by pass 3 was counted and went from its
\* category P to a strictly more common child of P; a counted detection with
\* no strictly more common child keeps its category in pass 3.
C12_CollapseOnlyToStrictlyMoreCommonChild ==
    (pc = "done" /\ result = "dict")
    => \A i \in DOMAIN detections :
         /\ detections[i] # after_pass2[i]
            => /\ PassesBothThresholds(after_pass2[i])
               /\ ~NoTaxonomy
               /\ StrictlyMoreCommonChild(CategoryOf(detections[i]),
                                          CategoryOf(after_pass2[i]))
         /\ (/\ PassesBothThresholds(after_pass2[i])
             /\ ~NoTaxonomy
             /\ \A c \in Cats :
                  ~StrictlyMoreCommonChild(c, CategoryOf(after_pass2[i])))
            => detections[i] = after_pass2[i]

\* Pass 3 relabeled a parent, and in the same unit left alone a counted
\* detection whose child category is exactly as common as its own.
C12_Witness ==
    /\ pc = "done"
    /\ result = "dict"
    /\ ~NoTaxonomy
    /\ \E i \in DOMAIN detections : detections[i] # after_pass2[i]
    /\ \E i \in DOMAIN detections, c \in Cats :
         /\ PassesBothThresholds(after_pass2[i])
         /\ detections[i] = after_pass2[i]
         /\ c # CategoryOf(after_pass2[i])
         /\ Len(DescriptionOf(c)) > 0
         /\ IsSubstring(DescriptionOf(CategoryOf(after_pass2[i])), DescriptionOf(c))
         /\ VisibleCount(after_pass2, c) = VisibleCount(after_pass2, CategoryOf(after_pass2[i]))

\* C13: the smoother returns None exactly when fewer than two categories
\* have a counted detection in the list it was given, and then the list is
\* as it was; otherwise it returns the dict of three counts.
C13_NoneIffFewerThanTwoCategories ==
    pc = "done"
    => /\ result \in {"None", "dict"}
       /\ result = "None" <=> Cardinality(VisibleCats(at_start)) < 2
       /\ result = "None" => detections = at_start

\* A first run returned None on a unit with exactly one counted category and
\* an uncounted detection of another one.
C13_Witness ==
    /\ pc = "done"
    /\ run = 1
    /\ result = "None"
    /\ Cardinality(VisibleCats(at_start)) = 1
    /\ \E i \in DOMAIN at_start :
         /\ at_start[i].has
         /\ ~PassesBothThresholds(at_start[i])
         /\ CategoryOf(at_start[i]) \notin VisibleCats(at_start)

\* ------------------------------------------------- claims about the drivers

\* Some classification list of the dict passed in is not in descending
\* order of confidence.
GivenUnsorted ==
    \E k \in DOMAIN given.images :
      \E j \in DOMAIN given.images[k].detections :
        \E i \in 1..(Len(given.images[k].detections[j].classifications) - 1) :
          given.images[k].detections[j].classifications[i].conf
            < given.images[k].detections[j].classifications[i + 1].conf

\* The first category id of detection j of image k of a dict, "" if it has
\* no classification.
TopCategory(dict, k, j) ==
    IF dict.images[k].detections[j].has
       /\ Len(dict.images[k].detections[j].classifications) > 0
    THEN dict.images[k].detections[j].classifications[1].cat
    ELSE ""

\* The category ids of a dict, image by image and detection by detection.
CategoryIds(dict) ==
    [k \in DOMAIN dict.images |->
       [j \in DOMAIN dict.images[k].detections |-> TopCategory(dict, k, j)]]

\* C14: for a dict without classification_category_descriptions whose
\* classification lists are sorted, a driver run with the default options
\* does not end in an error.
C14_DescriptionsAreOptional ==
    (/\ ~given.has_descriptions
     /\ options = ClassificationSmoothingOptions
     /\ ~GivenUnsorted)
    => step # "error"

\* C15: with options.modify_in_place = False the caller's dict is never
\* changed and the dict the driver works on and returns is not the caller's.
C15_CopyLeavesCallersDictUnchanged ==
    ~options.modify_in_place
    => /\ input_file = given
       /\ ~in_place

\* A finished run without modify_in_place that cut a classification list,
\* rewrote a category id and added a description, all in its own copy.
C15_Witness ==
    /\ step = "done"
    /\ ~options.modify_in_place
    /\ input_file = given
    /\ \E k \in DOMAIN d.images :
         /\ d.images[k].has_description
         /\ ~given.images[k].has_description
         /\ \E j \in DOMAIN d.images[k].detections :
              Len(d.images[k].detections[j].classifications)
                < Len(given.images[k].detections[j].classifications)
    /\ CategoryIds(d) # CategoryIds(given)

\* C16: the sequence-level driver, given a dict and the default options,
\* works in place: what it returns is the caller's dict.
C16_SequenceLevelInPlaceByDefault ==
    (/\ function = "sequence_level"
     /\ options = ClassificationSmoothingOptions
     /\ step = "done")
    => /\ in_place
       /\ input_file = d

\* The entries of the sequence information that belong to a sequence, in
\* listing order.
ListedIn(sequence_id) ==
    SelectSeq(cct_sequence_information, LAMBDA e : e.seq_id = sequence_id)

RECURSIVE Concatenation(_, _, _)
\* The detection lists of the first n listed images, one after the other.
Concatenation(images, listed, n) ==
    IF n = 0 THEN << >>
    ELSE Concatenation(images, listed, n - 1)
         \o (LET k == CHOOSE k \in DOMAIN images : images[k].file = listed[n].file_name
             IN IF images[k].has_detections THEN images[k].detections ELSE << >>)

\* C17: when the sequence-level driver is done, each sequence's detections,
\* read through the images in listing order, are what the smoother leaves of
\* the concatenation of the prepared images' lists; every image has as many
\* detections as before, and images without detections are as prepared.  An
\* image-level run on images of one detection each changes nothing.
C17_SequenceLevelIsSmootherOnConcatenation ==
    /\ (step = "done" /\ function = "sequence_level")
       => /\ \A sequence_id \in SequenceIds :
               Concatenation(d.images, ListedIn(sequence_id),
                             Len(ListedIn(sequence_id)))
               = SmoothClassificationsForListOfDetections(
                   Concatenation(prepared.images, ListedIn(sequence_id),
                                 Len(ListedIn(sequence_id))),
                   options, other_category_ids,
                   classification_descriptions_clean).detections
          /\ \A k \in DOMAIN d.images :
               /\ Len(d.images[k].detections) = Len(prepared.images[k].detections)
               /\ HasNoDetections(prepared.images[k])
                  => d.images[k] = prepared.images[k]
    /\ (/\ step = "done"
        /\ function = "image_level"
        /\ \A k \in DOMAIN prepared.images :
             Len(prepared.images[k].detections) <= 1)
       => d = prepared

\* The sequence-level driver is done with a sequence of MaxSequenceImages
\* images that held one detection of category "3" among detections of
\* category "2": all are of category "2" now.
C17_Witness ==
    /\ step = "done"
    /\ function = "sequence_level"
    /\ Len(d.images) = MaxSequenceImages
    /\ Cardinality({ k \in DOMAIN given.images :
                       TopCategory(given, k, 1) = "3" }) = 1
    /\ \A k \in DOMAIN given.images :
         /\ Len(given.images[k].detections) = 1
         /\ TopCategory(given, k, 1) \in {"2", "3"}
         /\ TopCategory(d, k, 1) = "2"

\* The units of the running driver in the order of the source's loop:
\* the images in list order, the sequence ids in order of first listing.
RECURSIVE UnitsInListOrder(_)
UnitsInListOrder(n) ==
    IF n = 0 THEN << >>
    ELSE IF function = "image_level" THEN UnitsInListOrder(n - 1) \o << n >>
    ELSE IF \E m \in 1..(n - 1) :
              cct_sequence_information[m].seq_id = cct_sequence_information[n].seq_id
    THEN UnitsInListOrder(n - 1)
    ELSE UnitsInListOrder(n - 1) \o << cct_sequence_information[n].seq_id >>

RECURSIVE InListOrder(_, _)
\* The dict and the counters after the first n units of list, starting from
\* the prepared dict.
InListOrder(list, n) ==
    IF n = 0 THEN [d |-> prepared, totals |-> NoTotals]
    ELSE LET before == InListOrder(list, n - 1)
         IN IF function = "image_level"
            THEN AfterImage(before.d, before.totals, list[n], options,
                            other_category_ids, classification_descriptions_clean)
            ELSE AfterSequence(before.d, before.totals, list[n],
                               cct_sequence_information, options,
                               other_category_ids,
                               classification_descriptions_clean)

\* The number of units of the running driver's input.
NumberOfListed ==
    IF function = "image_level" THEN Len(prepared.images)
    ELSE Len(cct_sequence_information)

\* C18: in whatever order the units were processed, a finished run leaves
\* the dict and the counters that processing them in list order leaves.
C18_UnitOrderIndependence ==
    step = "done"
    => \A list \in { UnitsInListOrder(NumberOfListed) } :
         \A expected \in { InListOrder(list, Len(list)) } :
           /\ d = expected.d
           /\ totals = expected.totals

\* A finished run over at least two units, two of which changed detections.
C18_Witness ==
    /\ step = "done"
    /\ Cardinality(processed) >= 2
    /\ totals.n_images_changed + totals.n_other_images_changed >= 2
    /\ CategoryIds(d) # CategoryIds(prepared)

\* C19: once _prepare_results_for_smoothing has succeeded, every detection
\* has no classifications field or a list of exactly one entry, the first
\* entry of the list it came with; a detection that came with an empty list
\* has no field.  The same shape holds whenever the smoother is called.
C19_NormalizerPostcondition ==
    step \in {"smooth", "done"}
    => \A k \in DOMAIN given.images :
         \A j \in DOMAIN given.images[k].detections :
           /\ prepared.images[k].detections[j].has
              <=> (/\ given.images[k].detections[j].has
                   /\ Len(given.images[k].detections[j].classifications) > 0)
           /\ prepared.images[k].detections[j].has
              => prepared.images[k].detections[j].classifications
                 = << given.images[k].detections[j].classifications[1] >>
           /\ d.images[k].detections[j].has
              => Len(d.images[k].detections[j].classifications) = 1

\* The normalizer succeeded on an image that came with a two-entry list and
\* an empty list.
C19_Witness ==
    /\ step = "smooth"
    /\ \E k \in DOMAIN given.images :
         /\ \E j \in DOMAIN given.images[k].detections :
              Len(given.images[k].detections[j].classifications) = 2
         /\ \E j \in DOMAIN given.images[k].detections :
              /\ given.images[k].detections[j].has
              /\ Len(given.images[k].detections[j].classifications) = 0

\* C20: when some classification list of the input is not in descending
\* order of confidence, the run never gets to the smoothing loop; it ends in
\* an AssertionError with no unit processed, no category id rewritten and
\* nothing written.
C20_UnsortedInputAborts ==
    GivenUnsorted
    => /\ step \in {"prepare", "error"}
       /\ step = "error"
          => /\ error = "AssertionError"
             /\ processed = {}
             /\ totals = NoTotals
             /\ CategoryIds(d) = CategoryIds(given)
             /\ CategoryIds(input_file) = CategoryIds(given)
             /\ written = << >>

\* A run on an image whose third detection has an unsorted list, and whose
\* detections would otherwise have been smoothed, ended in the error, with
\* an output file named.
C20_Witness ==
    /\ step = "error"
    /\ error = "AssertionError"
    /\ output_file
    /\ Len(given.images[1].detections) = 3
    /\ TopCategory(given, 1, 1) = "2"
    /\ TopCategory(given, 1, 2) = "1"
    /\ IsUnsorted(given.images[1].detections[3])

\* Detection j of image k of the dict passed in is counted by the tally
\* once cut to its top classification, with category c.
GivenCounted(k, j, c) ==
    /\ given.images[k].detections[j].has
    /\ Len(given.images[k].detections[j].classifications) > 0
    /\ given.images[k].detections[j].conf >= options.detection_confidence_threshold
    /\ given.images[k].detections[j].classifications[1].conf
         >= options.classification_confidence_threshold
    /\ given.images[k].detections[j].classifications[1].cat = c

\* The number of counted detections of category c in image k as passed in.
GivenCount(k, c) ==
    Cardinality({ j \in DOMAIN given.images[k].detections : GivenCounted(k, j, c) })

\* C21: with add_pre_smoothing_description set, from the end of the
\* preparation on every image with detections carries a description that
\* lists, for each category counted in the image as it was passed in, its
\* name and that original count, in descending order of count, and nothing
\* else; images without detections carry none.
C21_DescriptionOfOriginalCounts ==
    (step \in {"smooth", "done"} /\ options.add_pre_smoothing_description)
    => \A k \in DOMAIN d.images :
         IF HasNoDetections(given.images[k])
         THEN ~d.images[k].has_description
         ELSE /\ d.images[k].has_description
              /\ Len(d.images[k].pre_smoothing_description)
                   = Cardinality({ c \in Cats : GivenCount(k, c) > 0 })
              /\ \A c \in Cats :
                   GivenCount(k, c) > 0
                   => \E i \in DOMAIN d.images[k].pre_smoothing_description :
                        d.images[k].pre_smoothing_description[i]
                        = [name |-> given.classification_category_descriptions[c].name,
                           count |-> GivenCount(k, c)]
              /\ \A i \in 1..(Len(d.images[k].pre_smoothing_description) - 1) :
                   d.images[k].pre_smoothing_description[i].count
                   >= d.images[k].pre_smoothing_description[i + 1].count

\* A finished run that rewrote the category of a detection of an image whose
\* description still counts that detection under its original category.
C21_Witness ==
    /\ step = "done"
    /\ options.add_pre_smoothing_description
    /\ \E k \in DOMAIN d.images :
         \E j \in DOMAIN d.images[k].detections :
           /\ d.images[k].detections[j].has
           /\ GivenCounted(k, j, TopCategory(given, k, j))
           /\ TopCategory(d, k, j) # TopCategory(given, k, j)
           /\ \E i \in DOMAIN d.images[k].pre_smoothing_description :
                d.images[k].pre_smoothing_description[i]
                = [name |-> given.classification_category_descriptions[
                              TopCategory(given, k, j)].name,
                   count |-> GivenCount(k, TopCategory(given, k, j))]

\* C22: the smoother changes nothing but category ids: the list has the same
\* detections in the same places, each with its detection confidence, its
\* classifications key, the length of its list and its classification
\* confidences.
C22_OnlyCategoryIdsChange ==
    /\ Len(detections) = Len(at_start)
    /\ \A i \in DOMAIN detections :
         /\ detections[i].conf = at_start[i].conf
         /\ detections[i].has = at_start[i].has
         /\ Len(detections[i].classifications) = Len(at_start[i].classifications)
         /\ \A e \in DOMAIN detections[i].classifications :
              detections[i].classifications[e].conf
              = at_start[i].classifications[e].conf

\* A finished first run in which pass 1 and pass 3 each rewrote a category
\* id.
C22_Witness ==
    /\ pc = "done"
    /\ result = "dict"
    /\ run = 1
    /\ after_pass1 # at_start
    /\ detections # after_pass2

\* C23: the taxonomic change count the smoother returns is the number of
\* detections pass 3 gave another category.
C23_TaxonomicCountIsRewrittenDetections ==
    (pc = "done" /\ result = "dict")
    => n_taxonomic_changes_this_image
       = Cardinality({ i \in DOMAIN detections : detections[i] # after_pass2[i] })

\* C24: counted detections that have the same category when pass 3 begins
\* have the same category when it ends.
C24_SameCategorySameOutcome ==
    (pc = "done" /\ result = "dict")
    => \A i, j \in DOMAIN detections :
         (/\ PassesBothThresholds(after_pass2[i])
          /\ PassesBothThresholds(after_pass2[j])
          /\ CategoryOf(after_pass2[i]) = CategoryOf(after_pass2[j]))
         => CategoryOf(detections[i]) = CategoryOf(detections[j])

\* Pass 3 relabeled two detections of one category, which had two children
\* in the tally: one more common than it, one exactly as common.
C24_Witness ==
    /\ pc = "done"
    /\ result = "dict"
    /\ \E i, j \in DOMAIN detections :
         /\ i # j
         /\ PassesBothThresholds(after_pass2[i])
         /\ PassesBothThresholds(after_pass2[j])
         /\ CategoryOf(after_pass2[i]) = CategoryOf(after_pass2[j])
         /\ detections[i] # after_pass2[i]
         /\ detections[j] # after_pass2[j]
         /\ \E c \in Cats :
              /\ c \notin { CategoryOf(after_pass2[i]), CategoryOf(detections[i]) }
              /\ VisibleCount(after_pass2, c)
                   = VisibleCount(after_pass2, CategoryOf(after_pass2[i]))

\* C25: while and after the smoother runs, every counted detection that was
\* in the dominant category of pass 1 when the run began is still in it, and
\* the category has at least the count it had.
C25_DominantNeverRelabeled ==
    Smoothing
    => \A dom \in { Dominant } :
         /\ \A i \in DOMAIN at_start :
              (/\ PassesBothThresholds(at_start[i])
               /\ CategoryOf(at_start[i]) = dom.cat)
              => CategoryOf(detections[i]) = dom.cat
         /\ VisibleCount(detections, dom.cat) >= dom.n

\* A finished run after which the dominant category, which has a less
\* common child in the tally and was tied for first place, is as it was,
\* while pass 3 relabeled some other detection.
C25_Witness ==
    /\ pc = "done"
    /\ result = "dict"
    /\ ~NoTaxonomy
    /\ detections # after_pass2
    /\ \E c \in Cats \ { Dominant.cat } :
         /\ VisibleCount(after_pass2, c) \in 1..(Dominant.n - 1)
         /\ Len(DescriptionOf(c)) > 0
         /\ IsSubstring(DescriptionOf(Dominant.cat), DescriptionOf(c))
    /\ \E i \in DOMAIN at_start :
         /\ PassesBothThresholds(at_start[i])
         /\ CategoryOf(at_start[i]) = Dominant.cat
         /\ detections[i] = at_start[i]

\* C26: pass 3 relabels no detection to a category with an empty
\* description, and it relabels every counted detection of a category with
\* an empty description for which some tallied category has a non-empty
\* description and a larger count, to such a category.
C26_EmptyDescriptionIsUniversalAncestor ==
    (pc = "done" /\ result = "dict" /\ ~NoTaxonomy)
    => \A i \in DOMAIN detections :
         /\ detections[i] # after_pass2[i]
            => Len(DescriptionOf(CategoryOf(detections[i]))) > 0
         /\ (/\ PassesBothThresholds(after_pass2[i])
             /\ Len(DescriptionOf(CategoryOf(after_pass2[i]))) = 0
             /\ \E c \in Cats :
                  /\ Len(DescriptionOf(c)) > 0
                  /\ VisibleCount(after_pass2, c)
                       > VisibleCount(after_pass2, CategoryOf(after_pass2[i])))
            => /\ Len(DescriptionOf(CategoryOf(detections[i]))) > 0
               /\ VisibleCount(after_pass2, CategoryOf(detections[i]))
                    > VisibleCount(after_pass2, CategoryOf(after_pass2[i]))

\* Pass 3 relabeled a detection of a category with an empty description
\* while a less common category with a description kept its detections.
C26_Witness ==
    /\ pc = "done"
    /\ result = "dict"
    /\ ~NoTaxonomy
    /\ \E i \in DOMAIN detections :
         /\ PassesBothThresholds(after_pass2[i])
         /\ Len(DescriptionOf(CategoryOf(after_pass2[i]))) = 0
         /\ detections[i] # after_pass2[i]
         /\ \E c \in Cats :
              /\ Len(DescriptionOf(c)) > 0
              /\ VisibleCount(after_pass2, c) > 0
              /\ VisibleCount(after_pass2, c)
                   <= VisibleCount(after_pass2, CategoryOf(after_pass2[i]))

====
